---- MODULE Spec2Model ----
(***************************************************************************)
(* Model of seagoat_on_steroids/assistant.py: the conversation loop of     *)
(* main() and start_prompt(), the module-level conversation state          *)
(* (messages, prompt_tokens, completion_tokens) and the session record     *)
(* written by save_history().                                              *)
(*                                                                         *)
(* Text is modelled as a sequence of tokens: single characters for the     *)
(* user's utterance, and one token per literal chunk of the prompt         *)
(* template.  Concatenation is \o, str.lower() is Lower.                   *)
(*                                                                         *)
(* start_prompt() is cut at its two blocking points: the read of the       *)
(* input (session.prompt / sys.stdin.read) and the remote call             *)
(* (requests.post); save_history() is cut between open(path, "w"), which   *)
(* truncates the record, and json.dump, which writes it.  A process crash  *)
(* may happen at any of these points.                                      *)
(***************************************************************************)
EXTENDS Integers, Sequences, FiniteSets, TLC

VARIABLES
    pc,                 \* position of the main thread
    messages,           \* assistant.py:59, the global message list
    prompt_tokens,      \* assistant.py:61
    completion_tokens,  \* assistant.py:62
    config,             \* the config dict and the options of main():
                        \* non_interactive, markdown, context, restore
    folder,             \* SAVE_FOLDER: file name -> content
    stdin,              \* what sys.stdin.read() returns next
    result,             \* the result of requests.post in the current (or last) turn
    utterance,          \* the raw input of the current (or last) turn
    outcome,            \* how the current (or last) turn ended
    pre,                \* history: the conversation state when the turn began
    logical,            \* history: the messages when the logical turn began, its
                        \* retries so far, and whether it is still unresolved
    committed,          \* history: the conversation state after the last completed turn
    prev_committed,     \* history: the same, one completed turn earlier
    calls,              \* history: number of remote calls of the run
    reads,              \* history: number of inputs read
    interrupted,        \* history: a KeyboardInterrupt has hit a call in flight
    frame               \* the locals of the current (or last) call of start_prompt:
                        \* seagoat_results, message, body

vars == <<pc, messages, prompt_tokens, completion_tokens, config, folder, stdin,
          result, utterance, outcome, pre, logical, committed, prev_committed,
          calls, reads, interrupted, frame>>

----------------------------------------------------------------------------
(* Bounds *)

\* remote calls per run
MaxCalls == 2

\* results of one code search, and blocks of one result
MaxResults == 2

MaxBlocks == 2

----------------------------------------------------------------------------
(* Text *)

LowerTok(t) ==
    CASE t = "Q" -> "q"
      [] t = "H" -> "h"
      [] t = "Answer the users query with the following code snippets from their code repository as your context:"
           -> "answer the users query with the following code snippets from their code repository as your context:"
      [] t = "Keep in mind that you only need to use this context if it's actually relevant to the context."
           -> "keep in mind that you only need to use this context if it's actually relevant to the context."
      [] t = "Feel free to mention different options, and if possible mention even the code line numbers."
           -> "feel free to mention different options, and if possible mention even the code line numbers."
      [] t = "Finally, this is the actual user query that you have to answer: "
           -> "finally, this is the actual user query that you have to answer: "
      [] t = "File: " -> "file: "
      [] t = "Lines: " -> "lines: "
      [] OTHER -> t

\* str.lower()
Lower(s) == [i \in DOMAIN s |-> LowerTok(s[i])]

NL == "\n"

\* the double-quote character of the template, and the line of three backticks
\* that fences a block
Fence == "fence"

DQ == "dquote"

\* "\n".join(lines), lines a sequence of texts
RECURSIVE Join(_)
Join(lines) ==
    IF lines = <<>> THEN <<>>
    ELSE IF Len(lines) = 1 THEN lines[1]
    ELSE lines[1] \o <<NL>> \o Join(Tail(lines))

\* the utterances a user may type (or pipe in)
Utterances == { <<>>, <<"/", "q">>, <<"/", "Q">>, <<"H", "i">> }

----------------------------------------------------------------------------
(* The code-search results *)

\* one block of one result: its lines, each with a number and a text
Block1 == [lines |-> << [line |-> "10", lineText |-> <<"d", "e", "f">>],
                        [line |-> "11", lineText |-> <<"x">>] >>]

\* a second block, with an empty line in it
Block2 == [lines |-> << [line |-> "20", lineText |-> <<"y">>],
                        [line |-> "21", lineText |-> <<>>],
                        [line |-> "22", lineText |-> <<"z">>] >>]

\* the sequences over S of length n at most
SeqUpTo(S, n) == UNION { [1..k -> S] : k \in 0..n }

\* the results a code search may return
SeagoatResults ==
    SeqUpTo({ [path |-> p, blocks |-> b] :
                p \in {"foo.py", "bar.py"},
                b \in SeqUpTo({Block1, Block2}, MaxBlocks) }, MaxResults)

\* what query_server returns for a query, after
\* rewrite_full_paths_to_use_local_path: the index of this repository matches
\* the query "Hi" in one block of foo.py, and nothing else
query_server(message) ==
    IF message = <<"H", "i">>
    THEN << [path |-> "foo.py", blocks |-> <<Block1>>] >>
    ELSE <<>>

\* the lines get_context_from_seagoat appends for one block
BlockLines(path, block) ==
    << <<"File: ", path>>,
       <<"Lines: ", block.lines[1].line, "-", block.lines[Len(block.lines)].line>>,
       <<>>,
       <<Fence>> >>
    \o [i \in 1..Len(block.lines) |-> block.lines[i].lineText]
    \o << <<Fence>> >>

RECURSIVE BlocksLines(_, _)
BlocksLines(path, blocks) ==
    IF blocks = <<>> THEN <<>>
    ELSE BlockLines(path, Head(blocks)) \o BlocksLines(path, Tail(blocks))

\* mutant of ResultLines: the results are rendered last to first
RECURSIVE ResultLinesReversed(_)
ResultLinesReversed(results) ==
    IF results = <<>> THEN <<>>
    ELSE ResultLinesReversed(Tail(results))
         \o BlocksLines(Head(results).path, Head(results).blocks)

RECURSIVE ResultLines(_)
ResultLines(results) ==
    IF results = <<>> THEN <<>>
    ELSE BlocksLines(Head(results).path, Head(results).blocks)
         \o ResultLines(Tail(results))

\* the text get_context_from_seagoat returns for the results of the search
RenderContext(seagoat_results) == Join(ResultLines(seagoat_results))

get_context_from_seagoat(message) == RenderContext(query_server(message))

\* the f-string of start_prompt
AugmentedPrompt(context_from_seagoat, message) ==
    <<"Answer the users query with the following code snippets from their code repository as your context:", NL>>
    \o context_from_seagoat
    \o <<NL, "====", NL,
         "Keep in mind that you only need to use this context if it's actually relevant to the context.", NL,
         "Feel free to mention different options, and if possible mention even the code line numbers.", NL,
         "Finally, this is the actual user query that you have to answer: ", DQ>>
    \o message
    \o <<DQ, NL, "    ">>

----------------------------------------------------------------------------
(* Messages, records, remote results *)

Message(role, content) == [role |-> role, content |-> content]

\* add_markdown_system_message
MarkdownInstruction ==
    Message("system", <<"Always use code blocks with the appropriate language tags. If asked for a table always format it using Markdown syntax.">>)

\* the --context files of the command line, already read and stripped
ContextFiles == { <<>>, << <<"c", "t", "x">> >> }

Model == "gpt-3.5-turbo-16k"

Record(m, pt, ct) ==
    [model |-> Model, messages |-> m, prompt_tokens |-> pt, completion_tokens |-> ct]

\* a file that does not exist, and one that open(path, "w") has truncated
NoFile == [kind |-> "nofile"]
Truncated == [kind |-> "truncated"]
File(rec) == [kind |-> "record", record |-> rec]

\* the timestamps of the records of earlier runs, and of this run (SAVE_FILE).
\* A number stands for the text YYYYMMDD-hhmmss, and the order of the numbers
\* for the order in which list.sort() puts the texts.
T1 == 1
T2 == 2
Now == 3
Timestamps == {T1, T2, Now}

\* the text "notes", which sorts after every timestamp (letters after digits)
Notes == 9

\* a file name: the text stem, with or without "chatgpt-session-" before it
\* and ".json" after it
FileName(prefix, stem, json) == [prefix |-> prefix, stem |-> stem, json |-> json]

\* "chatgpt-session-" + timestamp + ".json"
SessionName(ts) == FileName(TRUE, ts, TRUE)

SAVE_FILE == SessionName(Now)

\* a file of the folder that is no session record: notes.json
StrayFile == FileName(FALSE, Notes, TRUE)

FileNames == {SessionName(t) : t \in Timestamps} \cup {StrayFile}

\* records earlier runs have saved
OldRecord ==
    Record(<< MarkdownInstruction,
              Message("user", AugmentedPrompt(<<>>, <<"H", "i">>)),
              Message("assistant", <<"o", "k">>) >>, 2, 1)

OlderRecord ==
    Record(<< Message("user", AugmentedPrompt(<<>>, <<>>)),
              Message("assistant", <<"n", "o">>) >>, 1, 1)

\* the folder that holds the files of present, and no other
FolderOf(present) ==
    [f \in FileNames |-> IF f \in DOMAIN present THEN present[f] ELSE NoFile]

\* the session-history folder at process start
Folders ==
    { FolderOf(<<>>),
      FolderOf(SessionName(T2) :> File(OldRecord)),
      FolderOf(SessionName(T1) :> File(OlderRecord) @@ SessionName(T2) :> File(OldRecord)),
      FolderOf(SessionName(T2) :> File(OldRecord) @@ StrayFile :> File(OldRecord)) }

\* usage figures a response may report
Usages == { [prompt_tokens |-> 0, completion_tokens |-> 0],
            [prompt_tokens |-> 2, completion_tokens |-> 1] }

\* the results of requests.post: an exception, or a response with a status
\* code and the fields of its body that start_prompt reads
Responses ==
    { [kind |-> "ConnectionError"], [kind |-> "Timeout"] }
    \cup { [kind |-> "http", status_code |-> 200,
            message |-> Message("assistant", <<"a">>), usage |-> u] : u \in Usages }
    \cup { [kind |-> "http", status_code |-> 400, error |-> e] :
             e \in {"context_length_exceeded", "invalid_request_error", "absent"} }
    \cup { [kind |-> "http", status_code |-> s] : s \in {401, 404, 429, 500, 502, 503} }

NoResult == [kind |-> "none"]

State(m, pt, ct) == [messages |-> m, prompt_tokens |-> pt, completion_tokens |-> ct]

\* the conversation state after n completed turns of this run
Commit(m, pt, ct, n) ==
    [messages |-> m, prompt_tokens |-> pt, completion_tokens |-> ct, turns |-> n]

\* the --restore option: absent, 'last', or a timestamp
Restores ==
    { [kind |-> "none"], [kind |-> "last"] }
    \cup { [kind |-> "timestamp", ts |-> t] : t \in {T1} }

\* get_last_save_file returns None
NoTimestamp == 0

\* the body of the request: model and messages (temperature and the optional
\* fields are left out)
Body(m) == [model |-> Model, messages |-> m]

NoBody == [model |-> "none", messages |-> <<>>]

Frame(seagoat_results, message, body) ==
    [seagoat_results |-> seagoat_results, message |-> message, body |-> body]

NoFrame == Frame(<<>>, <<>>, NoBody)

----------------------------------------------------------------------------
(* Init: the module-level globals, before main() runs *)

Init ==
    /\ pc = "Start"
    /\ messages = <<>>
    /\ prompt_tokens = 0
    /\ completion_tokens = 0
    /\ config = [non_interactive |-> FALSE, markdown |-> FALSE,
                 context |-> <<>>, restore |-> [kind |-> "none"]]
    /\ folder \in Folders
    /\ stdin = <<>>
    /\ result = NoResult
    /\ utterance = <<>>
    /\ outcome = "None"
    /\ pre = State(<<>>, 0, 0)
    /\ logical = [messages |-> <<>>, retries |-> 0, open |-> FALSE]
    /\ committed = Commit(<<>>, 0, 0, 0)
    /\ prev_committed = Commit(<<>>, 0, 0, 0)
    /\ calls = 0
    /\ reads = 0
    /\ interrupted = FALSE
    /\ frame = NoFrame

----------------------------------------------------------------------------
(* main(): the set-up before the loop *)

\* mutant of SavePath: one file per completed turn
SavePathPerTurn == SessionName(committed.turns)

\* os.path.join(SAVE_FOLDER, SAVE_FILE), the file save_history opens
SavePath == SAVE_FILE

\* mutant of Last: the first of the sorted list, ts[0]
First(S) == CHOOSE t \in S : \A u \in S : t <= u

\* the greatest element of a non-empty set of texts (ts.sort(); ts[-1])
Last(S) == CHOOSE t \in S : \A u \in S : u <= t

\* f.replace("chatgpt-session-", "").replace(".json", "")
StripName(f) == f.stem

get_last_save_file(dir) ==
    LET files == {f \in DOMAIN dir : dir[f].kind # "nofile" /\ f.json}
        ts == {StripName(f) : f \in files}
    IN  IF files # {} THEN Last(ts) ELSE NoTimestamp

\* the file main() restores: f"chatgpt-session-{...}.json"
RestoreFile(restore, dir) ==
    IF restore.kind = "last" THEN SessionName(get_last_save_file(dir))
    ELSE SessionName(restore.ts)

\* load_history_data finds the file (open raises FileNotFoundError if not)
Found(restore_file, dir) ==
    restore_file \in DOMAIN dir /\ dir[restore_file].kind = "record"

\* mutant of Restored: messages.clear() is left out
RestoredAfterInitial(initial, history_messages) == initial \o history_messages

\* messages.clear(), then the append of every message of the record
Restored(initial, history_messages) == history_messages

\* mutant of RestoreFailed: messages.clear() comes after the load
RestoreFailedKeepsInitial(initial) == initial

\* messages.clear(), then FileNotFoundError
RestoreFailed(initial) == <<>>

\* the system messages main() appends for the --context files
ContextMessages(context) ==
    [i \in 1..Len(context) |-> Message("system", context[i])]

main_setup ==
    /\ pc = "Start"
    /\ \E non_interactive \in BOOLEAN, markdown \in BOOLEAN,
          context \in ContextFiles, restore \in Restores :
         LET md == IF non_interactive THEN FALSE ELSE markdown
             initial == (IF md THEN <<MarkdownInstruction>> ELSE <<>>)
                        \o ContextMessages(context)
             restore_file == RestoreFile(restore, folder)
             history_data == folder[restore_file].record
         IN  /\ config' = [non_interactive |-> non_interactive, markdown |-> md,
                           context |-> context, restore |-> restore]
             /\ IF restore.kind = "none"
                THEN /\ messages' = initial
                     /\ UNCHANGED <<prompt_tokens, completion_tokens>>
                ELSE IF Found(restore_file, folder)
                THEN /\ messages' = Restored(initial, history_data.messages)
                     /\ prompt_tokens' = prompt_tokens + history_data.prompt_tokens
                     /\ completion_tokens' =
                            completion_tokens + history_data.completion_tokens
                ELSE /\ messages' = RestoreFailed(initial)
                     /\ UNCHANGED <<prompt_tokens, completion_tokens>>
             /\ stdin' \in (IF non_interactive THEN Utterances ELSE {<<>>})
    /\ pc' = "AwaitingInput"
    /\ UNCHANGED <<frame, folder, result, utterance, outcome, pre, logical,
                   committed, prev_committed, calls, reads, interrupted>>

----------------------------------------------------------------------------
(* start_prompt(), up to the remote call *)

QuitSentinel == <<"/", "q">>

\* mutant of RequestMessages: only the new message is sent
RequestLastOnly(m) == SubSeq(m, Len(m), Len(m))

\* "messages": messages, of the body of the request
RequestMessages(m) == m

\* mutant of AppendUser: the user message is appended with another role
AppendUserAsSystem(m, message) == Append(m, Message("system", message))

\* mutant of AppendUser: the user message is not put in the list
AppendUserNothing(m, message) == m

\* messages.append({"role": "user", "content": message})
AppendUser(m, message) == Append(m, Message("user", message))

start_prompt_input ==
    /\ pc = "AwaitingInput"
    /\ calls < MaxCalls
    /\ \E typed \in Utterances :
         LET raw == IF config.non_interactive THEN stdin ELSE typed
             message == AugmentedPrompt(get_context_from_seagoat(raw), raw)
         IN  /\ utterance' = raw
             /\ stdin' = IF config.non_interactive THEN <<>> ELSE stdin
             /\ reads' = reads + 1
             /\ result' = NoResult
             /\ pre' = State(messages, prompt_tokens, completion_tokens)
             /\ logical' = IF logical.open THEN logical
                           ELSE [messages |-> messages, retries |-> 0, open |-> TRUE]
             /\ IF Lower(message) = QuitSentinel
                THEN \* raise EOFError
                     /\ pc' = "Terminated"
                     /\ outcome' = "Quit"
                     /\ UNCHANGED <<messages, calls>>
                ELSE IF Lower(message) = <<>>
                THEN \* raise KeyboardInterrupt
                     /\ pc' = "AwaitingInput"
                     /\ outcome' = "Empty"
                     /\ UNCHANGED <<messages, calls>>
                ELSE /\ messages' = AppendUser(messages, message)
                     /\ pc' = "Requesting"
                     /\ outcome' = "Pending"
                     /\ calls' = calls + 1
             /\ frame' = Frame(query_server(raw), message,
                               IF Lower(message) \in {QuitSentinel, <<>>} THEN NoBody
                               ELSE Body(RequestMessages(messages')))
    /\ UNCHANGED <<prompt_tokens, completion_tokens, config, folder,
                   committed, prev_committed, interrupted>>

\* Ctrl-C at session.prompt: KeyboardInterrupt, caught by the loop of main()
start_prompt_interrupt ==
    /\ pc = "AwaitingInput"
    /\ ~config.non_interactive
    /\ outcome' = "PromptInterrupt"
    /\ result' = NoResult
    /\ pc' = "AwaitingInput"
    /\ UNCHANGED <<frame, messages, prompt_tokens, completion_tokens, config, folder,
                   stdin, utterance, pre, logical, committed,
                   prev_committed, calls, reads, interrupted>>

\* Ctrl-D at session.prompt: EOFError, which ends the loop of main()
start_prompt_eof ==
    /\ pc = "AwaitingInput"
    /\ ~config.non_interactive
    /\ outcome' = "PromptEOF"
    /\ result' = NoResult
    /\ pc' = "Terminated"
    /\ UNCHANGED <<frame, messages, prompt_tokens, completion_tokens, config, folder,
                   stdin, utterance, pre, logical, committed,
                   prev_committed, calls, reads, interrupted>>

----------------------------------------------------------------------------
(* start_prompt(), from the result of the remote call *)

\* mutants of Pop: the pop left out, a second pop, a pop at the wrong end
PopNothing(m) == m

PopTwice(m) == SubSeq(m, 1, Len(m) - 2)

PopFirst(m) == SubSeq(m, 2, Len(m))

\* messages.pop()
Pop(m) == SubSeq(m, 1, Len(m) - 1)

\* mutant of AppendResponse: the response is not recorded
AppendNothing(m, message_response) == m

\* messages.append(message_response)
AppendResponse(m, message_response) == Append(m, message_response)

\* mutant of AddUsage: the usage is counted twice
AddUsageTwice(tokens, used) == tokens + used + used

\* prompt_tokens += usage_response["prompt_tokens"], and the same for
\* completion_tokens
AddUsage(tokens, used) == tokens + used

\* mutant of SavedRecord: the record is taken before the response is appended
SavedRecordStale(m, pt, ct) == Record(Pop(m), pt, ct)

\* the object save_history dumps
SavedRecord(m, pt, ct) == Record(m, pt, ct)

\* mutant of Branch: 500 ends the session
Branch500Ends(r) ==
    IF r.kind = "ConnectionError" THEN "retry"
    ELSE IF r.kind = "Timeout" THEN "retry"
    ELSE CASE r.status_code = 200 -> "success"
           [] r.status_code = 400 -> "end"
           [] r.status_code = 401 -> "end"
           [] r.status_code = 429 -> "retry"
           [] r.status_code \in {502, 503} -> "retry"
           [] OTHER -> "end"

\* the branch of the try/except and of the match statement a result takes
Branch(r) ==
    IF r.kind = "ConnectionError" THEN "retry"
    ELSE IF r.kind = "Timeout" THEN "retry"
    ELSE CASE r.status_code = 200 -> "success"
           [] r.status_code = 400 -> "end"
           [] r.status_code = 401 -> "end"
           [] r.status_code = 429 -> "retry"
           [] r.status_code = 500 -> "retry"
           [] r.status_code \in {502, 503} -> "retry"
           [] OTHER -> "end"

start_prompt_response ==
    /\ pc = "Requesting"
    /\ \E r \in Responses :
         /\ result' = r
         /\ CASE Branch(r) = "success" ->
                   \* append, add the usage, and open the record for writing
                   /\ messages' = AppendResponse(messages, r.message)
                   /\ prompt_tokens' = AddUsage(prompt_tokens, r.usage.prompt_tokens)
                   /\ completion_tokens' =
                          AddUsage(completion_tokens, r.usage.completion_tokens)
                   /\ folder' = [folder EXCEPT ![SavePath] = Truncated]
                   /\ prev_committed' = committed
                   /\ committed' = Commit(messages', prompt_tokens',
                                          completion_tokens', committed.turns + 1)
                   /\ logical' = [logical EXCEPT !.open = FALSE]
                   /\ pc' = "Saving"
                   /\ UNCHANGED outcome
              [] Branch(r) = "retry" ->
                   \* messages.pop(); raise KeyboardInterrupt
                   /\ messages' = Pop(messages)
                   /\ outcome' = "RetryTurn"
                   /\ logical' = [logical EXCEPT !.retries = @ + 1]
                   /\ pc' = "AwaitingInput"
                   /\ UNCHANGED <<prompt_tokens, completion_tokens, folder,
                                  committed, prev_committed>>
              [] Branch(r) = "end" ->
                   \* raise EOFError
                   /\ outcome' = "EndSession"
                   /\ pc' = "Terminated"
                   /\ UNCHANGED <<messages, prompt_tokens, completion_tokens,
                                  folder, committed, prev_committed, logical>>
    /\ UNCHANGED <<frame, config, stdin, utterance, pre, calls, reads, interrupted>>

\* json.dump of save_history, then the end of the 200 branch
save_history ==
    /\ pc = "Saving"
    /\ folder' = [folder EXCEPT ![SavePath] =
                     File(SavedRecord(messages, prompt_tokens, completion_tokens))]
    /\ outcome' = "Success"
    /\ pc' = IF config.non_interactive THEN "Terminated" ELSE "AwaitingInput"
    /\ UNCHANGED <<frame, messages, prompt_tokens, completion_tokens, config, stdin,
                   result, utterance, pre, logical, committed, prev_committed,
                   calls, reads, interrupted>>

\* Ctrl-C while requests.post is in flight: the KeyboardInterrupt is caught by
\* neither except clause of start_prompt and reaches the loop of main()
start_prompt_interrupt_in_flight ==
    /\ pc = "Requesting"
    /\ outcome' = "Interrupted"
    /\ interrupted' = TRUE
    /\ logical' = [logical EXCEPT !.open = FALSE]
    /\ pc' = "AwaitingInput"
    /\ UNCHANGED <<frame, messages, prompt_tokens, completion_tokens, config, folder,
                   stdin, result, utterance, pre, committed,
                   prev_committed, calls, reads>>

\* the process is killed
Crash ==
    /\ pc \in {"AwaitingInput", "Requesting", "Saving"}
    /\ pc' = "Crashed"
    /\ UNCHANGED <<frame, messages, prompt_tokens, completion_tokens, config, folder,
                   stdin, result, utterance, outcome, pre, logical, committed,
                   prev_committed, calls, reads, interrupted>>

----------------------------------------------------------------------------
(* Failures of the code search and of the disk *)

\* query_server or the loop over its results raises (the service is
\* unreachable, or its answer is malformed): no except clause of start_prompt
\* or of main() catches the exception, and the process ends with it
start_prompt_context_unavailable ==
    /\ pc = "AwaitingInput"
    /\ \E typed \in Utterances :
         /\ utterance' = IF config.non_interactive THEN stdin ELSE typed
         /\ stdin' = IF config.non_interactive THEN <<>> ELSE stdin
    /\ reads' = reads + 1
    /\ result' = NoResult
    /\ pre' = State(messages, prompt_tokens, completion_tokens)
    /\ frame' = NoFrame
    /\ outcome' = "ContextUnavailable"
    /\ pc' = "Aborted"
    /\ UNCHANGED <<messages, prompt_tokens, completion_tokens, config, folder,
                   logical, committed, prev_committed, calls, interrupted>>

\* the record of this run as the turn before left it
PreviousFile ==
    IF prev_committed.turns >= 1
    THEN File(Record(prev_committed.messages, prev_committed.prompt_tokens,
                     prev_committed.completion_tokens))
    ELSE NoFile

\* open or json.dump of save_history raises OSError: the record is untouched
\* (open failed) or left truncated (the write failed); no except clause
\* catches the exception, and the process ends with it
save_history_fails ==
    /\ pc = "Saving"
    /\ \E left \in {PreviousFile, Truncated} :
         folder' = [folder EXCEPT ![SavePath] = left]
    /\ outcome' = "SaveFailed"
    /\ pc' = "Aborted"
    /\ UNCHANGED <<frame, messages, prompt_tokens, completion_tokens, config,
                   stdin, result, utterance, pre, logical, committed,
                   prev_committed, calls, reads, interrupted>>

----------------------------------------------------------------------------
(* The rendering of the prompt, for any results of the code search *)

InitRender ==
    /\ pc = "Render"
    /\ messages = <<>>
    /\ prompt_tokens = 0
    /\ completion_tokens = 0
    /\ config = [non_interactive |-> FALSE, markdown |-> FALSE,
                 context |-> <<>>, restore |-> [kind |-> "none"]]
    /\ folder = FolderOf(<<>>)
    /\ stdin = <<>>
    /\ result = NoResult
    /\ utterance \in Utterances
    /\ outcome = "None"
    /\ pre = State(<<>>, 0, 0)
    /\ logical = [messages |-> <<>>, retries |-> 0, open |-> FALSE]
    /\ committed = Commit(<<>>, 0, 0, 0)
    /\ prev_committed = Commit(<<>>, 0, 0, 0)
    /\ calls = 0
    /\ reads = 0
    /\ interrupted = FALSE
    /\ \E seagoat_results \in SeagoatResults :
         frame = Frame(seagoat_results, <<>>, NoBody)

\* lines 203-217 and 245-251 of start_prompt, on the results of the search
render ==
    /\ pc = "Render"
    /\ frame' = [frame EXCEPT !.message =
                     AugmentedPrompt(RenderContext(frame.seagoat_results), utterance)]
    /\ pc' = "Rendered"
    /\ UNCHANGED <<messages, prompt_tokens, completion_tokens, config, folder,
                   stdin, result, utterance, outcome, pre, logical, committed,
                   prev_committed, calls, reads, interrupted>>

----------------------------------------------------------------------------

Next ==
    \/ main_setup
    \/ start_prompt_input
    \/ start_prompt_interrupt
    \/ start_prompt_eof
    \/ start_prompt_response
    \/ save_history
    \/ start_prompt_interrupt_in_flight
    \/ Crash

Spec == Init /\ [][Next]_vars

NextFaults ==
    \/ Next
    \/ start_prompt_context_unavailable
    \/ save_history_fails

SpecFaults == Init /\ [][NextFaults]_vars

NextRender == render

SpecRender == InitRender /\ [][NextRender]_vars

----------------------------------------------------------------------------
(* Properties *)

\* the user message start_prompt builds for an utterance
Provisional(u) == Message("user", AugmentedPrompt(get_context_from_seagoat(u), u))

\* m is the sequence before, extended by the messages of more
Extends(m, before, more) ==
    /\ Len(m) = Len(before) + Len(more)
    /\ SubSeq(m, 1, Len(before)) = before
    /\ SubSeq(m, Len(before) + 1, Len(m)) = more

\* C1: after a turn that ends in Success, the messages are those of before
\* the turn plus the user message of the augmented prompt plus the assistant
\* message of the response, in this order, and neither counter is smaller
\* than before the turn.
C1_SuccessAppendsPair ==
    outcome = "Success" =>
        /\ Extends(messages, pre.messages, <<Provisional(utterance), result.message>>)
        /\ messages[Len(messages) - 1].role = "user"
        /\ messages[Len(messages)].role = "assistant"
        /\ prompt_tokens >= pre.prompt_tokens
        /\ completion_tokens >= pre.completion_tokens

\* a second successful turn, on top of a non-empty conversation
C1_Witness ==
    /\ outcome = "Success"
    /\ committed.turns = 2
    /\ Len(pre.messages) >= 3

\* C2: after a turn that ends in a RetryableFailure, the messages are equal,
\* element for element, to those before the turn.
C2_RetryRestoresMessages ==
    outcome = "RetryTurn" => messages = pre.messages

\* a 503 after a successful turn, rolled back
C2_Witness ==
    /\ outcome = "RetryTurn"
    /\ result.kind = "http"
    /\ result.status_code = 503
    /\ committed.turns = 1
    /\ Len(messages) >= 2

\* C3: when a logical turn succeeds after k >= 1 retryable failures, the
\* messages are those of before the logical turn plus exactly one user and
\* one assistant message.
C3_OnePairAfterRetries ==
    (outcome = "Success" /\ logical.retries >= 1) =>
        /\ Extends(messages, logical.messages,
                   <<Provisional(utterance), result.message>>)
        /\ Cardinality({i \in Len(logical.messages) + 1 .. Len(messages) :
                           messages[i].role = "user"}) = 1

\* a 200 after a retried attempt, with the utterance typed again
C3_Witness ==
    /\ outcome = "Success"
    /\ logical.retries >= 1
    /\ utterance = <<"H", "i">>

\* the outcome the claim assigns to a result of the remote call
ClaimedOutcome(r) ==
    IF r.kind \in {"ConnectionError", "Timeout"} THEN "RetryTurn"
    ELSE IF r.status_code = 200 THEN "Success"
    ELSE IF r.status_code \in {429, 500, 502, 503} THEN "RetryTurn"
    ELSE "EndSession"

\* the 200 branch has been taken and the record is being written
InSave == result # NoResult /\ outcome = "Pending"

NoUnansweredUser(m) ==
    \A i \in 1..Len(m) :
        m[i].role = "user" => (i < Len(m) /\ m[i + 1].role = "assistant")

\* C5: when control is back at AwaitingInput after a RetryableFailure, and
\* the turns before were successful or retried ones, every user message is
\* immediately followed by an assistant message.
C5_NoUnansweredUserAfterRetry ==
    (pc = "AwaitingInput" /\ outcome = "RetryTurn" /\ ~interrupted) =>
        NoUnansweredUser(messages)

\* a retried turn after a successful one
C5_Witness ==
    /\ pc = "AwaitingInput"
    /\ outcome = "RetryTurn"
    /\ ~interrupted
    /\ committed.turns >= 1
    /\ \E i \in 1..Len(messages) : messages[i].role = "user"

\* C6: once the loop runs, a step changes a counter only if it is the step of
\* a 200 response, which adds the usage of the response to each counter; no
\* step makes a counter smaller.
C6_CountersOnlyOnSuccess ==
    [][ pc # "Start" =>
          /\ (prompt_tokens' # prompt_tokens \/ completion_tokens' # completion_tokens)
                 => (pc = "Requesting" /\ pc' = "Saving")
          /\ (pc = "Requesting" /\ pc' = "Saving") =>
                 /\ result'.status_code = 200
                 /\ prompt_tokens' = prompt_tokens + result'.usage.prompt_tokens
                 /\ completion_tokens' =
                        completion_tokens + result'.usage.completion_tokens
          /\ prompt_tokens' >= prompt_tokens
          /\ completion_tokens' >= completion_tokens ]_vars

\* a success that added a positive usage, after a retried attempt
C6_Witness ==
    /\ outcome = "Success"
    /\ logical.retries >= 1
    /\ result.usage.prompt_tokens > 0
    /\ prompt_tokens = pre.prompt_tokens + result.usage.prompt_tokens
    /\ completion_tokens = pre.completion_tokens + result.usage.completion_tokens

\* the record of this run holds exactly the conversation state c
Persisted(c) ==
    folder[SAVE_FILE] =
        File(Record(c.messages, c.prompt_tokens, c.completion_tokens))

\* the turns of this run that were completed before the one in flight
TurnsBefore == IF InSave THEN prev_committed.turns ELSE committed.turns

\* C7 as claimed: at AwaitingInput after a successful turn the record holds
\* every completed turn, and a crash at any point after a completed turn
\* leaves a record that holds every completed turn but, at most, the one in
\* flight.
C7_CrashLosesAtMostInFlight ==
    /\ (pc = "AwaitingInput" /\ committed.turns >= 1) => Persisted(committed)
    /\ (pc = "Crashed" /\ TurnsBefore >= 1) =>
           (Persisted(committed) \/ (InSave /\ Persisted(prev_committed)))

\* C7 as amended: the record is written after the assistant message is
\* appended and the counters are advanced, and before control is back at
\* AwaitingInput; outside the rewriting of the record, after a successful
\* turn, the record holds every completed turn, also at a crash; while the
\* record is being rewritten (it is truncated by open and not yet dumped)
\* it holds nothing, also at a crash.
C7_PersistedOutsideSave ==
    /\ (committed.turns >= 1 /\ ~InSave) => Persisted(committed)
    /\ InSave => folder[SAVE_FILE] = Truncated
    /\ (pc = "AwaitingInput" /\ committed.turns >= 1) =>
           /\ Persisted(committed)
           /\ Extends(messages, committed.messages,
                      SubSeq(messages, Len(committed.messages) + 1, Len(messages)))
           /\ committed.messages[Len(committed.messages)].role = "assistant"

\* a crash during the call of the second turn, one turn completed
C7_Witness ==
    /\ pc = "Crashed"
    /\ committed.turns = 1
    /\ ~InSave
    /\ Len(messages) > Len(committed.messages)

\* the result is a 400 with the code context_length_exceeded
ContextLengthExceeded(r) ==
    r.kind = "http" /\ r.status_code = 400 /\ r.error = "context_length_exceeded"

\* C8 as claimed: after a FatalFailure other than ContextLengthExceeded the
\* provisional user message of the failing turn is in the record of the run.
C8_ProvisionalPersistedAfterFatal ==
    (outcome = "EndSession" /\ ~ContextLengthExceeded(result)) =>
        /\ folder[SAVE_FILE].kind = "record"
        /\ \E i \in 1..Len(folder[SAVE_FILE].record.messages) :
               folder[SAVE_FILE].record.messages[i] = Provisional(utterance)

\* C8 as amended: after a FatalFailure (of any kind) the provisional user
\* message of the failing turn is the last of the messages in memory, and the
\* failing turn writes no record: the record of the run is as the last
\* successful turn left it, without the provisional message, or absent if
\* no turn succeeded.
C8_ProvisionalOnlyInMemoryAfterFatal ==
    outcome = "EndSession" =>
        /\ Extends(messages, pre.messages, <<Provisional(utterance)>>)
        /\ IF committed.turns >= 1
           THEN /\ Persisted(committed)
                /\ Len(committed.messages) < Len(messages)
                /\ committed.messages = SubSeq(messages, 1, Len(committed.messages))
           ELSE folder[SAVE_FILE] = NoFile

\* a 401 after a successful turn
C8_Witness ==
    /\ outcome = "EndSession"
    /\ result.kind = "http"
    /\ result.status_code = 401
    /\ committed.turns = 1
    /\ pc = "Terminated"

\* the utterance is empty or the quit sentinel, in any letter case
IsQuitOrEmpty(u) == u = <<>> \/ Lower(u) = QuitSentinel

\* C9: a turn whose utterance is empty or the quit sentinel ends the loop
\* with no user message appended and no remote call made.
C9_QuitOrEmptyTerminates ==
    (IsQuitOrEmpty(utterance)
       /\ outcome \in {"Pending", "Success", "RetryTurn", "EndSession",
                       "Interrupted", "Quit", "Empty"}) =>
        /\ outcome = "Quit"
        /\ pc = "Terminated"
        /\ messages = pre.messages
        /\ result = NoResult

\* C10: in non-interactive mode the input is read once and at most one remote
\* call is made, and the session ends with the outcome of that one turn.
C10_NonInteractiveOneTurn ==
    config.non_interactive =>
        /\ reads <= 1
        /\ calls <= 1
        /\ (outcome \in {"Success", "RetryTurn", "EndSession"} /\ pc # "Crashed")
               => pc = "Terminated"

----------------------------------------------------------------------------
(* Claims on the restore, the record, the request and the rendering *)

\* the loop of main() has not read an input yet
BeforeFirstTurn == pc = "AwaitingInput" /\ reads = 0

\* the file the --restore option of this run names
RestoreFileOfRun == RestoreFile(config.restore, folder)

\* C11: when the code search is unreachable or answers with malformed data,
\* the turn is not aborted: it goes on as with no context, the user message is
\* appended and the remote call is made.
C11_ContextUnavailableProceeds ==
    outcome = "ContextUnavailable" =>
        /\ pc = "Requesting"
        /\ messages = Append(pre.messages,
                             Message("user", AugmentedPrompt(<<>>, utterance)))

\* C12: after the restore of a record that exists, and before the first
\* turn, the messages are those of the record, in its order, the two counters
\* are those of the record, and no message of the initial context remains
\* that the record does not hold.
C12_RestoreReplacesState ==
    (BeforeFirstTurn /\ config.restore.kind # "none"
       /\ Found(RestoreFileOfRun, folder)) =>
        /\ messages = folder[RestoreFileOfRun].record.messages
        /\ prompt_tokens = folder[RestoreFileOfRun].record.prompt_tokens
        /\ completion_tokens = folder[RestoreFileOfRun].record.completion_tokens

\* a restore by timestamp in a run that was given a context file and the
\* markdown option: the record holds no system message
C12_Witness ==
    /\ BeforeFirstTurn
    /\ config.restore = [kind |-> "timestamp", ts |-> T1]
    /\ config.context # <<>>
    /\ config.markdown
    /\ Found(RestoreFileOfRun, folder)
    /\ messages = OlderRecord.messages
    /\ prompt_tokens = 1

\* C13: a restore that names a record which does not exist leaves the
\* session running: the set-up ends at the prompt of the first turn, with no
\* message and both counters at zero.
C13_MissingRecordStartsEmpty ==
    [][ (pc = "Start" /\ config'.restore.kind # "none"
           /\ ~Found(RestoreFile(config'.restore, folder), folder)) =>
          /\ pc' = "AwaitingInput"
          /\ messages' = <<>>
          /\ prompt_tokens' = 0
          /\ completion_tokens' = 0 ]_vars

\* --restore last in an empty folder, in a run that was given a context file
C13_Witness ==
    /\ BeforeFirstTurn
    /\ config.restore.kind = "last"
    /\ config.context # <<>>
    /\ \A f \in DOMAIN folder : folder[f].kind = "nofile"
    /\ messages = <<>>
    /\ prompt_tokens = 0
    /\ completion_tokens = 0

\* the timestamps of the session records of the folder
SessionTimestamps(dir) ==
    { t \in Timestamps : dir[SessionName(t)].kind = "record" }

\* C14: when the folder holds session records, --restore last loads the one
\* with the greatest timestamp among the files named as session records.
C14_LastLoadsGreatestSession ==
    (BeforeFirstTurn /\ config.restore.kind = "last"
       /\ SessionTimestamps(folder) # {}) =>
        messages =
            folder[SessionName(Last(SessionTimestamps(folder)))].record.messages

\* C15: every step leaves every file but the one named by the start of the
\* process as it was, no file appears or disappears, and the save of a
\* successful turn leaves in that one file the state after the turn.
C15_OneRecordPerRun ==
    [][ /\ DOMAIN folder' = DOMAIN folder
        /\ \A f \in DOMAIN folder : f # SAVE_FILE => folder'[f] = folder[f]
        /\ folder[SAVE_FILE].kind # "nofile" => folder'[SAVE_FILE].kind # "nofile"
        /\ (pc = "Saving" /\ outcome' = "Success") =>
              folder'[SAVE_FILE] =
                  File(Record(messages', prompt_tokens', completion_tokens')) ]_vars

\* the second successful turn of a run that restored the record of an
\* earlier run: both earlier records are as they were
C15_Witness ==
    /\ outcome = "Success"
    /\ committed.turns = 2
    /\ config.restore.kind = "timestamp"
    /\ folder[SessionName(T1)] = File(OlderRecord)
    /\ folder[SessionName(T2)] = File(OldRecord)
    /\ folder[SAVE_FILE] = File(Record(messages, prompt_tokens, completion_tokens))
    /\ Len(messages) = Len(OlderRecord.messages) + 4

\* C16: when the write of the record fails in a successful turn, the session
\* is not aborted: the turn ends as a successful one, with the in-memory
\* state the write would have left.
C16_SaveFailureIsNotFatal ==
    outcome = "SaveFailed" =>
        /\ pc = (IF config.non_interactive THEN "Terminated" ELSE "AwaitingInput")
        /\ messages = committed.messages
        /\ prompt_tokens = committed.prompt_tokens
        /\ completion_tokens = committed.completion_tokens

\* C17: the body of the request holds the whole list: the messages the turn
\* began with, in their order, then the user message of the turn, last.
C17_RequestCarriesWholeSequence ==
    pc = "Requesting" =>
        /\ frame.body # NoBody
        /\ frame.body.messages =
               Append(pre.messages, Message("user", frame.message))
        /\ frame.body.messages = messages

\* the request of a second turn, after a restore: five messages before the
\* one of the turn
C17_Witness ==
    /\ pc = "Requesting"
    /\ committed.turns = 1
    /\ Len(pre.messages) = 5
    /\ Len(frame.body.messages) = 6
    /\ frame.body.messages[6].role = "user"

\* the path and the block of every stanza, in the order of the results
RECURSIVE Received(_)
Received(results) ==
    IF results = <<>> THEN <<>>
    ELSE [i \in 1..Len(Head(results).blocks) |->
             [path |-> Head(results).path, block |-> Head(results).blocks[i]]]
         \o Received(Tail(results))

\* the source lines of a block, each on a line of its own
RECURSIVE SourceLines(_)
SourceLines(lines) ==
    IF lines = <<>> THEN <<>>
    ELSE <<NL>> \o Head(lines).lineText \o SourceLines(Tail(lines))

\* File: path, Lines: first-last, a blank line, the fenced source lines
Stanza(path, block) ==
    <<"File: ", path, NL,
      "Lines: ", Head(block.lines).line, "-", block.lines[Len(block.lines)].line, NL,
      NL,
      Fence>>
    \o SourceLines(block.lines)
    \o <<NL, Fence>>

\* the stanzas of the blocks, one after the other
RECURSIVE Stanzas(_)
Stanzas(received) ==
    IF received = <<>> THEN <<>>
    ELSE Stanza(Head(received).path, Head(received).block)
         \o (IF Tail(received) = <<>> THEN <<>> ELSE <<NL>>)
         \o Stanzas(Tail(received))

\* the text between the context and the utterance
Caveat ==
    <<NL, "====", NL,
      "Keep in mind that you only need to use this context if it's actually relevant to the context.", NL,
      "Feel free to mention different options, and if possible mention even the code line numbers.", NL,
      "Finally, this is the actual user query that you have to answer: ", DQ>>

\* C18: the prompt is the opening line, one stanza for each block in the
\* order the blocks came, the caveat, and the utterance as it was typed.
C18_PromptRendersBlocksInOrder ==
    pc = "Rendered" =>
        frame.message =
            <<"Answer the users query with the following code snippets from their code repository as your context:", NL>>
            \o Stanzas(Received(frame.seagoat_results))
            \o Caveat
            \o utterance
            \o <<DQ, NL, "    ">>

\* two results of different files, the first with two different blocks
C18_Witness ==
    /\ pc = "Rendered"
    /\ utterance = <<"H", "i">>
    /\ Len(frame.seagoat_results) = 2
    /\ frame.seagoat_results[1].path # frame.seagoat_results[2].path
    /\ frame.seagoat_results[1].blocks = <<Block1, Block2>>
    /\ frame.seagoat_results[2].blocks = <<Block2>>
    /\ frame.message # <<>>

\* C19: a step that pops for a retry finds the list non-empty with the user
\* message of this turn last, and leaves the list the turn began with.
C19_PopOnlyProvisional ==
    [][ (pc = "Requesting" /\ outcome' = "RetryTurn") =>
          /\ messages # <<>>
          /\ messages[Len(messages)] = Message("user", frame.message)
          /\ frame.message = AugmentedPrompt(get_context_from_seagoat(utterance),
                                             utterance)
          /\ messages' = pre.messages ]_vars

\* a retry in a run with no message before the turn: the pop empties the list
C19_Witness ==
    /\ pc = "AwaitingInput"
    /\ outcome = "RetryTurn"
    /\ result.kind = "Timeout"
    /\ pre.messages = <<>>
    /\ messages = <<>>
    /\ frame.body.messages = <<Message("user", frame.message)>>

\* C20: whenever control is at the prompt, the last message is not a user
\* message: a Ctrl-C during the remote call does not leave one there.
C20_NoProvisionalLastAtPrompt ==
    pc = "AwaitingInput" =>
        (messages = <<>> \/ messages[Len(messages)].role # "user")

====
